---- MODULE Spec2Model ----
(***************************************************************************)
(* School bus route optimisation engine: the genetic-algorithm optimizer   *)
(* (services/genetic_algorithm.py), the tabular reinforcement-learning     *)
(* optimizer (services/reinforcement_learning.py), the hybrid orchestrator *)
(* (services/route_optimizer.py) and the request handler that dispatches   *)
(* to them (api/routes.py).                                                *)
(*                                                                         *)
(* Numbers: distances are whole kilometres (stops lie on one meridian, so  *)
(* the great-circle distance of two stops is the difference of their       *)
(* positions); fitness is fixed point with FitnessScale units per 1.0;     *)
(* rewards are fixed point with RewardScale units per 1.0.                 *)
(***************************************************************************)
EXTENDS Integers, Sequences, FiniteSets, TLC

\* ------------------------------------------------------------------ bounds
MaxStops == 3        \* longest stop list of a request
MaxBuses == 1        \* longest vehicle list of a request
MaxPop == 3          \* largest population_size an optimizer is built with
MaxGen == 2          \* largest generations an optimizer is built with
MaxEpisodes == 2     \* RLOptimizer.episodes, scaled down from 100
MaxRLStops == 1      \* longest stop list of a call on an optimizer that outlives a request
MaxThreads == 2      \* optimize calls that can run at a time on the optimizers that
                     \* outlive a request
HybridPop == 1       \* population_size of the orchestrator's optimizer, scaled down from 30
HybridGen == 1       \* generations of the orchestrator's optimizer, scaled down from 50
MaxOpStops == 3      \* longest stop list an operator is called with on its own
MaxOpBuses == 2      \* longest vehicle list an operator is called with on its own
MaxOpSize == 2       \* largest population_size _initialize_population is called with on its own
MaxOpIds == 3        \* stop ids 1..MaxOpIds in the routes an operator is called with
MaxOpLen == 3        \* longest route an operator is called with
MaxOpPop == 4        \* longest population _tournament_selection is called with
maxlen == 3          \* DQN.memory's maxlen, scaled down from 2000
batch_size == 2      \* DQN.replay's batch_size, scaled down from 32
rl_threshold == 3    \* the orchestrator runs the RL optimizer above this stop count,
                     \* scaled down from 20

\* ------------------------------------------------------- program constants
FitnessScale == 1000000   \* fixed point: 1.0
distance_weight == 4      \* 0.4, in tenths
time_weight == 3          \* 0.3, in tenths
capacity_weight == 3      \* 0.3, in tenths
tournament_size == 3
NegInf == -1000000000     \* float('-inf')
PosInf == 1000000000      \* float('inf')
RewardScale == 10         \* fixed point: 1.0 of reward
action_size == 10
NoStop == -1              \* _apply_action returning None
gamma == 95               \* 0.95, in hundredths
EpsilonScale == 1000000000    \* fixed point: an epsilon of 1.0
epsilon_min == 10000000       \* 0.01, in EpsilonScale units
epsilon_decay == 200          \* 0.995: epsilon loses one part in 200
route_slots == 20         \* np.zeros(20): the route encoding of a state vector

None == [none |-> TRUE]   \* Python's None

\* ------------------------------------------------------------ small helpers
Min(a, b) == IF a <= b THEN a ELSE b
Max(a, b) == IF a >= b THEN a ELSE b
Abs(a) == IF a >= 0 THEN a ELSE -a
Range(s) == {s[i] : i \in DOMAIN s}
Take(s, n) == SubSeq(s, 1, Min(n, Len(s)))          \* s[:n], n >= 0
NoRepeats(s) == \A i, j \in DOMAIN s : i # j => s[i] # s[j]
EmptyDict == [k \in {} |-> 0]                       \* {}
Get(dict, key, default) == IF key \in DOMAIN dict THEN dict[key] ELSE default

\* ------------------------------------------------------------ the request
\* Stop(id, location, students): the location is a position in km on a meridian.
Stop(id) == [id |-> id, location |-> 3 * id * id, students |-> id + 2]
\* Bus(id, capacity, fuel_efficiency = 8.0)
Bus(id) == [id |-> id, capacity |-> 4 * id, fuel_efficiency |-> 8]

StopsFrom(first, n) == [i \in 1..n |-> Stop(first + i - 1)]
\* stop lists of a request: ids 1..n, ids 0..n-1, and one list that repeats an id
StopLists ==
    {StopsFrom(1, n) : n \in 0..MaxStops}
        \cup {StopsFrom(0, n) : n \in 1..(MaxStops - 1)}
        \cup {<<Stop(1), Stop(2), Stop(1)>>}
\* stop lists of a request that selects the orchestrator: also lists long enough
\* for its RL phase
HybridStopLists ==
    StopLists \cup {StopsFrom(1, n) : n \in (MaxStops + 1)..(rl_threshold + 1)}
\* vehicle lists of a request: ids 1..n, and one vehicle of capacity 0
BusLists ==
    {[i \in 1..n |-> Bus(i)] : n \in 0..MaxBuses}
        \cup {<<[Bus(1) EXCEPT !.capacity = 0]>>}
AlgorithmNames == {"genetic", "rl", "hybrid", "annealing"}
\* data.get('constraints', {}): an object, or null when the body says so
ConstraintSets == {[max_time |-> 5], None}

Ids(stops) == [i \in DOMAIN stops |-> stops[i].id]
UniqueIds(stops) == NoRepeats(Ids(stops))

Route(bus_id, route_stops) == [bus_id |-> bus_id, stops |-> route_stops, fitness |-> 0]

\* ------------------------------------------------- genetic_algorithm.py
\* next(x for x in xs if x.id == id): the index of the first match, 0 for StopIteration
FirstWithId(xs, id) ==
    IF \E i \in DOMAIN xs : xs[i].id = id
    THEN CHOOSE i \in DOMAIN xs : xs[i].id = id /\ \A j \in 1..(i - 1) : xs[j].id # id
    ELSE 0

\* a bug: the new population is not cut to population_size
TruncateNot(routes, size) == routes

\* population[:self.population_size]
Truncate(routes, size) == Take(routes, size)

\* a bug: only the best candidate is carried over
EliteOne(sorted) == Take(sorted, 1)

\* population[:2], the elite
Elite(sorted) == Take(sorted, 2)

\* random.sample(xs, k): k elements at distinct positions, in any order
Samples(xs, k) ==
    {[i \in 1..k |-> xs[f[i]]] :
        f \in {g \in [1..k -> DOMAIN xs] : \A a, b \in 1..k : a # b => g[a] # g[b]}}

\* random.sample(stop_ids, min(len(stop_ids), random.randint(3, len(stop_ids))))
RouteStopChoices(stop_ids) ==
    UNION {Samples(stop_ids, Min(Len(stop_ids), k)) : k \in 3..Len(stop_ids)}

\* random.randint(3, len(stop_ids)) raises ValueError on an empty range; it is drawn
\* once per population slot and vehicle
_initialize_population_raises(stops, buses, size) ==
    size > 0 /\ Len(buses) > 0 /\ Len(stops) < 3

\* the populations _initialize_population can return. The nested loops append
\* population_size * len(buses) routes, the vehicles in turn, and the result is cut
\* to population_size: the routes cut off are drawn but never seen, so their draw
\* is not enumerated (they get the first choice)
_initialize_population(stops, buses, size) ==
    IF size = 0 \/ Len(buses) = 0
    THEN {<<>>}
    ELSE LET choices == RouteStopChoices(Ids(stops))
             first == CHOOSE c \in choices : TRUE
         IN  {Truncate([j \in 1..(size * Len(buses)) |->
                            Route(buses[((j - 1) % Len(buses)) + 1].id,
                                  IF j <= size THEN c[j] ELSE first)], size) :
                c \in [1..size -> choices]}

_haversine_distance(loc1, loc2) == Abs(loc2 - loc1)

RECURSIVE LegSum(_, _, _)
LegSum(route_stops, stops, i) ==
    IF i >= Len(route_stops) THEN 0
    ELSE _haversine_distance(stops[FirstWithId(stops, route_stops[i])].location,
                             stops[FirstWithId(stops, route_stops[i + 1])].location)
            + LegSum(route_stops, stops, i + 1)

\* a stop lookup of _calculate_total_distance that finds no match
DistanceLookupFails(route_stops, stops) ==
    Len(route_stops) >= 2 /\ \E i \in DOMAIN route_stops : FirstWithId(stops, route_stops[i]) = 0

_calculate_total_distance(route_stops, stops) ==
    IF Len(route_stops) < 2 THEN 0 ELSE LegSum(route_stops, stops, 1)

\* sum(s.students for s in stops if s.id in route.stops)
RECURSIVE StudentsOnRoute(_, _, _)
StudentsOnRoute(route_stops, stops, i) ==
    IF i > Len(stops) THEN 0
    ELSE (IF stops[i].id \in Range(route_stops) THEN stops[i].students ELSE 0)
            + StudentsOnRoute(route_stops, stops, i + 1)

\* the exception _calculate_fitness raises for a route, "none" when it returns
_calculate_fitness_raises(route, stops, buses) ==
    IF DistanceLookupFails(route.stops, stops) THEN "StopIteration"
    ELSE IF FirstWithId(buses, route.bus_id) = 0 THEN "StopIteration"
    ELSE IF buses[FirstWithId(buses, route.bus_id)].capacity = 0 THEN "ZeroDivisionError"
    ELSE "none"

_calculate_fitness(route, stops, buses) ==
    LET distance == _calculate_total_distance(route.stops, stops)
        time == (distance * 60) \div 30
        bus == buses[FirstWithId(buses, route.bus_id)]
        total_students == StudentsOnRoute(route.stops, stops, 1)
        capacity_util == Min((FitnessScale * total_students) \div bus.capacity, FitnessScale)
        distance_score == (FitnessScale * 100) \div (100 + distance)
        time_score == (FitnessScale * 60) \div (60 + time)
        capacity_score == capacity_util
    IN  (distance_weight * distance_score + time_weight * time_score
            + capacity_weight * capacity_score) \div 10

\* for route in population: route.fitness = self._calculate_fitness(...)
Evaluate(population, stops, buses) ==
    [i \in DOMAIN population |->
        [population[i] EXCEPT !.fitness = _calculate_fitness(population[i], stops, buses)]]

EvaluateRaises(population, stops, buses) ==
    IF \A i \in DOMAIN population :
            _calculate_fitness_raises(population[i], stops, buses) = "none"
    THEN "none"
    ELSE _calculate_fitness_raises(
            population[CHOOSE i \in DOMAIN population :
                /\ _calculate_fitness_raises(population[i], stops, buses) # "none"
                /\ \A j \in 1..(i - 1) :
                    _calculate_fitness_raises(population[j], stops, buses) = "none"],
            stops, buses)

\* population.sort(key=lambda x: x.fitness, reverse=True): stable, descending
InsertByFitness(sorted, r) ==
    LET k == Cardinality({i \in DOMAIN sorted : sorted[i].fitness >= r.fitness})
    IN  SubSeq(sorted, 1, k) \o <<r>> \o SubSeq(sorted, k + 1, Len(sorted))

\* a bug: the sort lacks reverse=True and puts the worst candidate first
RECURSIVE SortAscending(_)
SortAscending(population) ==
    IF population = <<>> THEN <<>>
    ELSE LET rest == SortAscending(SubSeq(population, 1, Len(population) - 1))
             r == population[Len(population)]
             k == Cardinality({i \in DOMAIN rest : rest[i].fitness <= r.fitness})
         IN  SubSeq(rest, 1, k) \o <<r>> \o SubSeq(rest, k + 1, Len(rest))

RECURSIVE SortByFitness(_)
SortByFitness(population) ==
    IF population = <<>> THEN <<>>
    ELSE InsertByFitness(SortByFitness(SubSeq(population, 1, Len(population) - 1)),
                         population[Len(population)])

\* the routes _tournament_selection can return: the best of 3 drawn at distinct positions
_tournament_selection(population) ==
    {population[i] : i \in {w \in DOMAIN population :
        \E T \in SUBSET DOMAIN population :
            /\ Cardinality(T) = tournament_size
            /\ w \in T
            /\ \A t \in T : population[t].fitness <= population[w].fitness}}

\* random.sample(population, tournament_size) raises ValueError on a short population
_tournament_selection_raises(population) == Len(population) < tournament_size

\* a bug: the fill does not skip the stops the child already has
RECURSIVE FillFromUnchecked(_, _, _, _)
FillFromUnchecked(child, source, limit, i) ==
    IF i > Len(source) THEN child
    ELSE FillFromUnchecked(IF Len(child) < limit THEN Append(child, source[i]) ELSE child,
                           source, limit, i + 1)

\* a bug: the fill has no length test
RECURSIVE FillFromUncapped(_, _, _, _)
FillFromUncapped(child, source, limit, i) ==
    IF i > Len(source) THEN child
    ELSE FillFromUncapped(IF source[i] \notin Range(child)
                          THEN Append(child, source[i]) ELSE child,
                          source, limit, i + 1)

\* for stop in source: if stop not in child and len(child) < limit: child.append(stop)
RECURSIVE FillFrom(_, _, _, _)
FillFrom(child, source, limit, i) ==
    IF i > Len(source) THEN child
    ELSE FillFrom(IF source[i] \notin Range(child) /\ Len(child) < limit
                  THEN Append(child, source[i]) ELSE child,
                  source, limit, i + 1)

\* start, end = sorted(random.sample(range(size), 2)), as 0-based slice bounds
CutPoints(parent1, parent2) ==
    LET size == Min(Len(parent1.stops), Len(parent2.stops))
    IN  {c \in (0..(size - 1)) \X (0..(size - 1)) : c[1] < c[2]}

\* a bug: the slice takes the stop at end as well
SliceInclusive(s, start, end) == SubSeq(s, start + 1, Min(end + 1, Len(s)))

\* parent.stops[start:end]
Slice(s, start, end) == SubSeq(s, start + 1, Min(end, Len(s)))

_crossover(parent1, parent2, start, end) ==
    IF Len(parent1.stops) < 2 \/ Len(parent2.stops) < 2
    THEN <<parent1, parent2>>
    ELSE <<Route(parent1.bus_id,
                 FillFrom(Slice(parent1.stops, start, end), parent2.stops,
                          Len(parent1.stops), 1)),
           Route(parent2.bus_id,
                 FillFrom(Slice(parent2.stops, start, end), parent1.stops,
                          Len(parent2.stops), 1))>>

\* the pairs _crossover can return for two parents
Crossovers(parent1, parent2) ==
    IF Len(parent1.stops) < 2 \/ Len(parent2.stops) < 2
    THEN {<<parent1, parent2>>}
    ELSE {_crossover(parent1, parent2, c[1], c[2]) : c \in CutPoints(parent1, parent2)}

\* a bug: the swap writes the two (0-based) positions instead of the stop ids there
_mutate_positions(route, i, j) ==
    IF Len(route.stops) < 2 THEN route
    ELSE Route(route.bus_id, [route.stops EXCEPT ![i] = j - 1, ![j] = i - 1])

\* a bug: the stop at i is copied to j and the stop at j is lost
_mutate_overwrite(route, i, j) ==
    IF Len(route.stops) < 2 THEN route
    ELSE Route(route.bus_id, [route.stops EXCEPT ![j] = route.stops[i]])

\* i, j = random.sample(range(len(mutated_stops)), 2); swap, 1-based positions here
_mutate(route, i, j) ==
    IF Len(route.stops) < 2 THEN route
    ELSE Route(route.bus_id, [route.stops EXCEPT ![i] = route.stops[j], ![j] = route.stops[i]])

\* the routes _mutate can return for a route
Mutations(route) ==
    IF Len(route.stops) < 2 THEN {route}
    ELSE {_mutate(route, p[1], p[2]) :
            p \in {q \in (DOMAIN route.stops) \X (DOMAIN route.stops) : q[1] # q[2]}}


\* round(x, 2) of a ratio num/den, in hundredths (den > 0)
Round2(num, den) == (num * 200 + den) \div (2 * den)
\* round(fitness, 4), in FitnessScale units
Round4(f) == ((f + 50) \div 100) * 100

\* the exception _calculate_route_metrics raises, "none" when it returns
_calculate_route_metrics_raises(route, stops, buses) ==
    IF route = None THEN "AttributeError"
    ELSE IF DistanceLookupFails(route.stops, stops) THEN "StopIteration"
    ELSE IF FirstWithId(buses, route.bus_id) = 0 THEN "StopIteration"
    ELSE IF buses[FirstWithId(buses, route.bus_id)].capacity = 0 THEN "ZeroDivisionError"
    ELSE "none"

\* distances, times, litres and the percentage are in hundredths
_calculate_route_metrics(route, stops, buses) ==
    LET distance == _calculate_total_distance(route.stops, stops)
        bus == buses[FirstWithId(buses, route.bus_id)]
        total_students == StudentsOnRoute(route.stops, stops, 1)
    IN  [total_distance_km |-> Round2(distance, 1),
         estimated_time_minutes |-> Round2(distance * 60, 30),
         fuel_consumption_liters |-> Round2(distance, bus.fuel_efficiency),
         students_served |-> total_students,
         capacity_utilization |-> Round2(total_students * 100, bus.capacity),
         stops_count |-> Len(route.stops)]

\* a location lookup of _format_routes that finds no match
_format_routes_raises(route, stops) ==
    \E i \in DOMAIN route.stops : FirstWithId(stops, route.stops[i]) = 0

_format_routes(route, stops) ==
    <<[bus_id |-> route.bus_id,
       stops |-> [idx \in DOMAIN route.stops |->
                    [id |-> route.stops[idx],
                     location |-> stops[FirstWithId(stops, route.stops[idx])].location,
                     sequence |-> idx - 1]],
       fitness_score |-> Round4(route.fitness)]>>

\* ------------------------------------------- reinforcement_learning.py: DQN
\* RouteState(stops, current_route, traffic_level, weather_condition); the traffic
\* level is in thousandths
RouteState(stop_list, current_route, traffic_level, weather_condition) ==
    [stops |-> stop_list, current_route |-> current_route,
     traffic_level |-> traffic_level, weather_condition |-> weather_condition]

\* weather_encoding.get(self.weather_condition, 0), in hundredths
weather_encoding(weather_condition) ==
    IF weather_condition = "rain" THEN 50
    ELSE IF weather_condition = "heavy_rain" THEN 100
    ELSE IF weather_condition = "snow" THEN 80
    ELSE 0

\* RouteState.to_vector: the four features, then the route encoding. Slot i of the
\* encoding is stop_id / max(len(stops), 1): the vector keeps its numerator, the
\* denominator is feature 4; the zero slots behind the route are left out, feature 1
\* tells how many there are
to_vector(state) ==
    <<Len(state.current_route), state.traffic_level,
      weather_encoding(state.weather_condition), Len(state.stops)>>
        \o Take(state.current_route, route_slots)

\* np.round: to the nearest, a tie to the even neighbour (num >= 0, den > 0)
RoundHalfEven(num, den) ==
    LET q == num \div den
        r == num % den
    IN  IF 2 * r < den THEN q
        ELSE IF 2 * r > den THEN q + 1
        ELSE IF q % 2 = 0 THEN q ELSE q + 1

\* tuple(state.round(2)): every entry in hundredths
state_key(vector) ==
    [i \in DOMAIN vector |->
        IF i = 1 \/ i = 4 THEN 100 * vector[i]
        ELSE IF i = 2 THEN RoundHalfEven(vector[i], 10)
        ELSE IF i = 3 THEN vector[i]
        ELSE RoundHalfEven(100 * vector[i], Max(vector[4], 1))]

\* np.zeros(self.action_size)
zeros == [a \in 0..(action_size - 1) |-> 0]

\* DQN.__init__: the agent of a new optimizer
DQN == [memory |-> <<>>, epsilon |-> EpsilonScale, q_table |-> <<>>]

\* if key not in self.q_table: self.q_table[key] = np.zeros(self.action_size)
EnsureRow(q_table, key) ==
    IF key \in DOMAIN q_table THEN q_table ELSE q_table @@ (key :> zeros)

\* np.max(row) and np.argmax(row), the first index of the maximum
RowMax(row) == CHOOSE m \in Range(row) : \A a \in DOMAIN row : row[a] <= m
ArgMax(row) == CHOOSE a \in DOMAIN row : row[a] = RowMax(row) /\ \A b \in 0..(a - 1) : row[b] < row[a]

\* a bug: the buffer has no bound
remember_unbounded(agent, transition) ==
    [agent EXCEPT !.memory = Append(@, transition)]

\* DQN.remember: deque.append, which drops the oldest entry of a full deque
remember(agent, transition) ==
    [agent EXCEPT !.memory = IF Len(@) < maxlen THEN Append(@, transition)
                             ELSE Append(Tail(@), transition)]

\* DQN.act: the outcomes, an action and the agent after the call. np.random.rand() is
\* in [0, 1): the random branch can be taken for every epsilon > 0, the greedy branch
\* for every epsilon < 1.0. randrange is the set random.randrange(self.action_size)
\* draws from
DQN_act(agent, vector, randrange) ==
    (IF agent.epsilon > 0
     THEN {[action |-> a, agent |-> agent] : a \in randrange}
     ELSE {})
    \cup
    (IF agent.epsilon < EpsilonScale
     THEN LET q_table == EnsureRow(agent.q_table, state_key(vector))
          IN  {[action |-> ArgMax(q_table[state_key(vector)]),
                agent |-> [agent EXCEPT !.q_table = q_table]]}
     ELSE {})

\* a bug: the discount factor is left out
Target_undiscounted(q_table, transition) ==
    IF transition.done THEN transition.reward
    ELSE transition.reward + RowMax(q_table[state_key(transition.next_state)])

\* reward + self.gamma * np.max(...), in RewardScale units
Target(q_table, transition) ==
    IF transition.done THEN transition.reward
    ELSE transition.reward
            + (gamma * RowMax(q_table[state_key(transition.next_state)])) \div 100

\* DQN.replay, lines 81-94: the loop over the minibatch, from its entry i on
RECURSIVE ReplayLoop(_, _, _)
ReplayLoop(q_table, minibatch, i) ==
    IF i > Len(minibatch) THEN q_table
    ELSE LET t == minibatch[i]
             rows == EnsureRow(EnsureRow(q_table, state_key(t.state)),
                               state_key(t.next_state))
         IN  ReplayLoop([rows EXCEPT ![state_key(t.state)][t.action] = Target(rows, t)],
                        minibatch, i + 1)

\* a bug: the decay stands inside the loop over the minibatch and runs again
DecayPerSample(epsilon) ==
    LET Step(e) == IF e > epsilon_min THEN e - e \div epsilon_decay ELSE e
    IN  Step(Step(epsilon))

\* lines 97-98: if self.epsilon > self.epsilon_min: self.epsilon *= self.epsilon_decay
Decay(epsilon) ==
    IF epsilon > epsilon_min THEN epsilon - epsilon \div epsilon_decay ELSE epsilon

\* a bug: the replay empties the buffer it trained on
replay_clearing(agent) ==
    IF Len(agent.memory) < batch_size THEN {agent}
    ELSE {[agent EXCEPT !.q_table = ReplayLoop(@, minibatch, 1),
                        !.epsilon = Decay(@),
                        !.memory = <<>>] :
            minibatch \in Samples(agent.memory, batch_size)}

\* DQN.replay: the agents it can leave behind, one per minibatch random.sample draws
replay(agent) ==
    IF Len(agent.memory) < batch_size THEN {agent}
    ELSE {[agent EXCEPT !.q_table = ReplayLoop(@, minibatch, 1),
                        !.epsilon = Decay(@)] :
            minibatch \in Samples(agent.memory, batch_size)}

\* ------------------------------------------------------------------ state
VARIABLES
    pc,              \* where the request handler and the optimizer it runs stand
    algorithm,       \* data.get('algorithm', 'genetic')
    stops,           \* data['stops']
    buses,           \* data['buses']
    optimizer,       \* the class optimize_routes built: "genetic", "rl", "hybrid"
    population_size, \* GeneticAlgorithmOptimizer.population_size
    generations,     \* GeneticAlgorithmOptimizer.generations
    population,      \* optimize: population
    new_population,  \* optimize: new_population
    generation,      \* optimize: generation
    best_solution,   \* optimize: best_solution
    best_fitness,    \* optimize: best_fitness
    ga_result,       \* what GeneticAlgorithmOptimizer.optimize returned
    constraints,     \* data.get('constraints', {})
    episodes,        \* RLOptimizer.episodes
    episode,         \* RLOptimizer.optimize: episode
    route,           \* RLOptimizer.optimize: route
    total_reward,    \* RLOptimizer.optimize: total_reward
    done,            \* RLOptimizer.optimize: done
    best_route,      \* RLOptimizer.optimize: best_route; None is <<>>, like the empty
                     \* list to its one reader, "if not route" of _format_results
    best_reward,     \* RLOptimizer.optimize: best_reward
    rl_result,       \* what RLOptimizer.optimize returned
    final_result,    \* what RouteOptimizer.optimize returned
    error,           \* the exception that ended the optimize call, "none" if none
    agents,          \* the agents (DQN) of the optimizers that outlive a request
    calls,           \* the optimize calls made on those optimizers: their locals
    call,            \* an operator called on its own: its name and arguments
    ret,             \* what that call returned or raised
    cancel_requested, \* the caller has asked to cancel the running call, or its
                     \* deadline has passed; no line of the code reads it
    response         \* what optimize_routes answered

reqVars == <<algorithm, stops, buses, constraints, optimizer, population_size, generations,
             episodes>>
gaVars == <<population, new_population, generation, best_solution, best_fitness, ga_result>>
rlVars == <<episode, route, total_reward, done, best_route, best_reward, rl_result>>
libVars == <<agents, calls>>

\* the optimizers that outlive a request, one per thread at most, and the threads
Instances == 1..MaxThreads
Threads == 1..MaxThreads

\* the locals of RLOptimizer.optimize; a thread that is in no call has these
NoCall ==
    [pc |-> "idle", instance |-> 0, stops |-> <<>>, buses |-> <<>>,
     constraints |-> EmptyDict, episode |-> 0,
     state |-> RouteState(<<>>, <<>>, 0, "clear"), route |-> <<>>, total_reward |-> 0,
     done |-> FALSE, best_route |-> <<>>, best_reward |-> NegInf,
     result |-> None, error |-> "none"]
opVars == <<call, ret, libVars, cancel_requested>>
vars == <<pc, reqVars, gaVars, rlVars, final_result, error, response, opVars>>

\* the server waits for a request: nothing has been built or run
Idle ==
    /\ pc = "idle"
    /\ algorithm = "genetic"
    /\ stops = <<>>
    /\ buses = <<>>
    /\ optimizer = "none"
    /\ population_size = 0
    /\ generations = 0
    /\ population = <<>>
    /\ new_population = <<>>
    /\ generation = 0
    /\ best_solution = None
    /\ best_fitness = NegInf
    /\ ga_result = None
    /\ constraints = [max_time |-> 60]
    /\ episodes = MaxEpisodes
    /\ episode = 0
    /\ route = <<>>
    /\ total_reward = 0
    /\ done = FALSE
    /\ best_route = <<>>
    /\ best_reward = NegInf
    /\ rl_result = None
    /\ final_result = None
    /\ error = "none"
    /\ response = None
    /\ agents = [i \in Instances |-> DQN]
    /\ calls = [c \in Threads |-> NoCall]
    /\ cancel_requested = FALSE

Init ==
    /\ Idle
    /\ call = None
    /\ ret = None

\* routes.py: the optimizer class the algorithm name selects
SelectOptimizer(name) ==
    IF name = "genetic" THEN "genetic"
    ELSE IF name = "rl" THEN "rl"
    ELSE "hybrid"

\* routes.py 28-43: read the request, build the optimizer, call optimize
optimize_routes ==
    /\ pc = "idle"
    /\ \E a \in AlgorithmNames, b \in BusLists, c \in ConstraintSets :
       \E s \in (IF a = "hybrid" THEN HybridStopLists ELSE StopLists) :
            /\ algorithm' = a
            /\ stops' = s
            /\ buses' = b
            /\ constraints' = c
            /\ optimizer' = SelectOptimizer(a)
    /\ IF optimizer' = "hybrid"
       THEN population_size' = HybridPop /\ generations' = HybridGen
       ELSE IF optimizer' = "rl"
       THEN population_size' = 0 /\ generations' = 0
       ELSE \E size \in 0..MaxPop, gens \in 0..MaxGen :
                population_size' = size /\ generations' = gens
    /\ episodes' = MaxEpisodes
    /\ pc' = IF optimizer' = "rl" THEN "rl_episode" ELSE "ga_init"
    /\ UNCHANGED <<gaVars, rlVars, final_result, error, response, opVars>>

Raise(exception) ==
    /\ error' = exception
    /\ pc' = "respond"

\* a bug: the population is built by popping the stops off the caller's list
GAInitialize_consuming ==
    /\ pc = "ga_init"
    /\ IF _initialize_population_raises(stops, buses, population_size)
       THEN /\ Raise("ValueError")
            /\ UNCHANGED gaVars
       ELSE /\ population' \in _initialize_population(stops, buses, population_size)
            /\ best_solution' = None
            /\ best_fitness' = NegInf
            /\ generation' = 0
            /\ pc' = "ga_generation"
            /\ UNCHANGED <<new_population, ga_result, error>>
    /\ stops' = <<>>
    /\ UNCHANGED <<algorithm, buses, constraints, optimizer, population_size, generations,
                   episodes, rlVars, final_result, response, opVars>>

\* genetic_algorithm.py 67-78: convert the request, create the initial population
GAInitialize ==
    /\ pc = "ga_init"
    /\ IF _initialize_population_raises(stops, buses, population_size)
       THEN /\ Raise("ValueError")
            /\ UNCHANGED gaVars
       ELSE /\ population' \in _initialize_population(stops, buses, population_size)
            /\ best_solution' = None
            /\ best_fitness' = NegInf
            /\ generation' = 0
            /\ pc' = "ga_generation"
            /\ UNCHANGED <<new_population, ga_result, error>>
    /\ UNCHANGED <<reqVars, rlVars, final_result, response, opVars>>

\* genetic_algorithm.py 80-95: evaluate, sort, track the best, keep the top 2
GAEvaluate ==
    /\ pc = "ga_generation"
    /\ generation < generations
    /\ IF EvaluateRaises(population, stops, buses) # "none"
       THEN /\ Raise(EvaluateRaises(population, stops, buses))
            /\ UNCHANGED gaVars
       ELSE IF population = <<>>
       THEN /\ Raise("IndexError")
            /\ UNCHANGED gaVars
       ELSE LET sorted == SortByFitness(Evaluate(population, stops, buses))
            IN  /\ population' = sorted
                /\ IF sorted[1].fitness > best_fitness
                   THEN /\ best_fitness' = sorted[1].fitness
                        /\ best_solution' = sorted[1]
                   ELSE UNCHANGED <<best_fitness, best_solution>>
                /\ new_population' = Elite(sorted)
                /\ pc' = "ga_reproduce"
                /\ UNCHANGED <<generation, ga_result, error>>
    /\ UNCHANGED <<reqVars, rlVars, final_result, response, opVars>>

\* genetic_algorithm.py 97-111: one pass of the reproduction loop
GAReproduce ==
    /\ pc = "ga_reproduce"
    /\ Len(new_population) < population_size
    /\ IF _tournament_selection_raises(population)
       THEN /\ Raise("ValueError")
            /\ UNCHANGED gaVars
       ELSE \E parent1 \in _tournament_selection(population),
               parent2 \in _tournament_selection(population) :
            \E pair \in Crossovers(parent1, parent2) \cup {<<parent1, parent2>>} :
            \E child1 \in Mutations(pair[1]) \cup {pair[1]},
               child2 \in Mutations(pair[2]) \cup {pair[2]} :
                /\ new_population' = new_population \o <<child1, child2>>
                /\ UNCHANGED <<pc, population, generation, best_solution, best_fitness,
                               ga_result, error>>
    /\ UNCHANGED <<reqVars, rlVars, final_result, response, opVars>>

\* genetic_algorithm.py 113: population = new_population[:self.population_size]
GAReplace ==
    /\ pc = "ga_reproduce"
    /\ Len(new_population) >= population_size
    /\ population' = Truncate(new_population, population_size)
    /\ generation' = generation + 1
    /\ pc' = "ga_generation"
    /\ UNCHANGED <<new_population, best_solution, best_fitness, ga_result, error>>
    /\ UNCHANGED <<reqVars, rlVars, final_result, response, opVars>>

\* genetic_algorithm.py 115-123: metrics and formatting of the best solution; the
\* return ends the life of the call's locals
GAFinish ==
    /\ pc = "ga_generation"
    /\ generation >= generations
    /\ IF _calculate_route_metrics_raises(best_solution, stops, buses) # "none"
       THEN /\ Raise(_calculate_route_metrics_raises(best_solution, stops, buses))
            /\ UNCHANGED gaVars
       ELSE IF _format_routes_raises(best_solution, stops)
       THEN /\ Raise("StopIteration")
            /\ UNCHANGED gaVars
       ELSE /\ ga_result' = [routes |-> _format_routes(best_solution, stops),
                             metrics |-> _calculate_route_metrics(best_solution, stops, buses),
                             generations |-> generations,
                             final_fitness |-> best_fitness]
            /\ pc' = IF optimizer = "hybrid" THEN "hybrid_phase2" ELSE "respond"
            /\ population' = <<>>
            /\ new_population' = <<>>
            /\ generation' = 0
            /\ UNCHANGED <<best_solution, best_fitness, error>>
    /\ UNCHANGED <<reqVars, rlVars, final_result, response, opVars>>

\* ------------------------------------------------- reinforcement_learning.py
\* DQN.act: the actions it can return. np.random.rand() <= epsilon is possible in
\* every state (epsilon >= epsilon_min > 0) and the greedy branch returns an index
\* of a table row, so act can return every action and nothing else
act == 0..(action_size - 1)

\* a bug: the stops already in the route are not filtered out
RECURSIVE available_stops_all(_, _, _)
available_stops_all(current_route, stop_list, i) ==
    IF i > Len(stop_list) THEN <<>>
    ELSE <<stop_list[i].id>> \o available_stops_all(current_route, stop_list, i + 1)

\* [s['id'] for s in stops if s['id'] not in route]
RECURSIVE available_stops(_, _, _)
available_stops(current_route, stop_list, i) ==
    IF i > Len(stop_list) THEN <<>>
    ELSE (IF stop_list[i].id \in Range(current_route) THEN <<>> ELSE <<stop_list[i].id>>)
            \o available_stops(current_route, stop_list, i + 1)

\* the stops _apply_action can return for an action
_apply_action(action, current_route, stop_list) ==
    LET available == available_stops(current_route, stop_list, 1)
    IN  IF available = <<>> THEN {NoStop}
        ELSE IF action = 0 THEN {available[1]}
        ELSE IF action = 1 THEN {available[Len(available)]}
        ELSE Range(available)

\* sqrt(dlat^2 + dlng^2) * 111.0 for two points of one meridian: 111 km per degree,
\* where the great circle has 111.195
_calculate_distance(loc1, loc2) == (Abs(loc2 - loc1) * 111000) \div 111195

\* constraints.get('max_time', 60) on a constraints that is None
_calculate_reward_raises(next_stop, cons) == next_stop # NoStop /\ cons = None

\* in RewardScale units
_calculate_reward(current_route, next_stop, stop_list, cons) ==
    IF next_stop = NoStop THEN -10 * RewardScale
    ELSE LET stop == stop_list[FirstWithId(stop_list, next_stop)]
             last_stop == stop_list[FirstWithId(stop_list, current_route[Len(current_route)])]
         IN  stop.students * 2 * RewardScale
                - (IF current_route # <<>>
                   THEN (_calculate_distance(last_stop.location, stop.location) * RewardScale)
                            \div 10
                   ELSE 0)
                - (IF Len(current_route) * 5 > Get(cons, "max_time", 60)
                   THEN 5 * RewardScale ELSE 0)

\* if next_stop: a stop id of 0 is falsy, like None
Truthy(next_stop) == next_stop # NoStop /\ next_stop # 0

RECURSIVE PlanarLegSum(_, _, _)
PlanarLegSum(current_route, stop_list, i) ==
    IF i >= Len(current_route) THEN 0
    ELSE _calculate_distance(stop_list[FirstWithId(stop_list, current_route[i])].location,
                             stop_list[FirstWithId(stop_list, current_route[i + 1])].location)
            + PlanarLegSum(current_route, stop_list, i + 1)

\* a lookup of _format_results that finds no match
_format_results_raises(current_route, stop_list, bus_list) ==
    /\ current_route # <<>>
    /\ bus_list # <<>>
    /\ \E i \in DOMAIN current_route : FirstWithId(stop_list, current_route[i]) = 0

\* distances and times are in hundredths, the reward in RewardScale units
_format_results(current_route, stop_list, bus_list, reward) ==
    IF current_route = <<>> \/ bus_list = <<>>
    THEN [routes |-> <<>>, metrics |-> EmptyDict]
    ELSE [routes |-> <<[bus_id |-> bus_list[1].id,
                        stops |-> [idx \in DOMAIN current_route |->
                            [id |-> current_route[idx],
                             location |-> stop_list[FirstWithId(stop_list,
                                                current_route[idx])].location,
                             sequence |-> idx - 1]],
                        rl_reward |-> reward]>>,
          metrics |-> [total_distance_km |->
                            Round2(PlanarLegSum(current_route, stop_list, 1), 1),
                       estimated_time_minutes |-> Round2(Len(current_route) * 5, 1),
                       stops_count |-> Len(current_route),
                       rl_episodes |-> episodes,
                       final_reward |-> reward]]

\* ------------------------------------------------------ route_optimizer.py
heuristics_applied == <<"time_window_validation", "load_balancing", "route_smoothing">>

_apply_heuristics(result) ==
    result @@ [heuristics_applied |-> heuristics_applied, optimization_approach |-> "hybrid"]

\* route_optimizer.py 51-60: the lower total_distance_km wins, a tie goes to the GA
ChooseBetter(ga, rl) ==
    IF Get(rl.metrics, "total_distance_km", PosInf) < Get(ga.metrics, "total_distance_km", PosInf)
    THEN rl @@ [algorithm_used |-> "rl"]
    ELSE ga @@ [algorithm_used |-> "genetic"]

\* reinforcement_learning.py 127-131: an episode starts
RLStartEpisode ==
    /\ pc = "rl_episode"
    /\ episode < episodes
    /\ route' = <<>>
    /\ total_reward' = 0
    /\ done' = FALSE
    /\ pc' = "rl_step"
    /\ UNCHANGED <<episode, best_route, best_reward, rl_result>>
    /\ UNCHANGED <<reqVars, gaVars, final_result, error, response, opVars>>

\* reinforcement_learning.py 133-160: one pass of the episode's loop
RLStep ==
    /\ pc = "rl_step"
    /\ ~done /\ Len(route) < Len(stops)
    /\ \E action \in act :
       \E next_stop \in _apply_action(action, route, stops) :
       IF _calculate_reward_raises(next_stop, constraints)
       THEN /\ Raise("AttributeError")
            /\ UNCHANGED <<route, total_reward, done>>
       ELSE LET reward == _calculate_reward(route, next_stop, stops, constraints)
            IN  /\ done' = (Len(route) >= Len(stops) \/ next_stop = NoStop)
                /\ IF Truthy(next_stop)
                   THEN /\ route' = Append(route, next_stop)
                        /\ total_reward' = total_reward + reward
                   ELSE UNCHANGED <<route, total_reward>>
                /\ UNCHANGED <<pc, error>>
    /\ UNCHANGED <<episode, best_route, best_reward, rl_result>>
    /\ UNCHANGED <<reqVars, gaVars, final_result, response, opVars>>

\* reinforcement_learning.py 162-168: the episode is over; train, keep the best
RLEndEpisode ==
    /\ pc = "rl_step"
    /\ done \/ Len(route) >= Len(stops)
    /\ IF total_reward > best_reward
       THEN best_reward' = total_reward /\ best_route' = route
       ELSE UNCHANGED <<best_reward, best_route>>
    /\ episode' = episode + 1
    /\ pc' = "rl_episode"
    /\ UNCHANGED <<route, total_reward, done, rl_result>>
    /\ UNCHANGED <<reqVars, gaVars, final_result, error, response, opVars>>

\* reinforcement_learning.py 170-171, and route_optimizer.py 51-67 when the
\* orchestrator made the call; the return ends the life of the call's locals
RLFinish ==
    /\ pc = "rl_episode"
    /\ episode >= episodes
    /\ IF _format_results_raises(best_route, stops, buses)
       THEN /\ Raise("StopIteration")
            /\ UNCHANGED <<rlVars, final_result>>
       ELSE /\ rl_result' = _format_results(best_route, stops, buses, best_reward)
            /\ final_result' = IF optimizer = "hybrid"
                               THEN _apply_heuristics(ChooseBetter(ga_result, rl_result'))
                               ELSE final_result
            /\ pc' = "respond"
            /\ episode' = 0
            /\ route' = <<>>
            /\ total_reward' = 0
            /\ done' = FALSE
            /\ best_route' = <<>>
            /\ best_reward' = NegInf
            /\ UNCHANGED error
    /\ UNCHANGED <<reqVars, gaVars, response, opVars>>

\* a bug: the RL optimizer also runs at the threshold
HybridPhase2_inclusive ==
    /\ pc = "hybrid_phase2"
    /\ IF Len(stops) >= rl_threshold
       THEN /\ pc' = "rl_episode"
            /\ UNCHANGED final_result
       ELSE /\ final_result' = _apply_heuristics(ga_result @@ [algorithm_used |-> "genetic"])
            /\ pc' = "respond"
    /\ UNCHANGED <<reqVars, gaVars, rlVars, error, response, opVars>>

\* route_optimizer.py 46-67: after the GA, run the RL optimizer or keep the GA result
HybridPhase2 ==
    /\ pc = "hybrid_phase2"
    /\ IF Len(stops) > rl_threshold
       THEN /\ pc' = "rl_episode"
            /\ UNCHANGED final_result
       ELSE /\ final_result' = _apply_heuristics(ga_result @@ [algorithm_used |-> "genetic"])
            /\ pc' = "respond"
    /\ UNCHANGED <<reqVars, gaVars, rlVars, error, response, opVars>>

\* routes.py 45-54: the answer, 500 with the message when optimize raised
Respond ==
    /\ pc = "respond"
    /\ response' =
        IF error # "none"
        THEN [status |-> 500, success |-> FALSE, error |-> error]
        ELSE LET result == IF optimizer = "genetic" THEN ga_result
                           ELSE IF optimizer = "rl" THEN rl_result
                           ELSE final_result
             IN  [status |-> 200, success |-> TRUE, routes |-> result.routes,
                  metrics |-> result.metrics, algorithm |-> algorithm]
    /\ pc' = "done"
    /\ UNCHANGED <<reqVars, gaVars, rlVars, final_result, error, opVars>>

Next ==
    \/ optimize_routes
    \/ GAInitialize
    \/ GAEvaluate
    \/ GAReproduce
    \/ GAReplace
    \/ GAFinish
    \/ HybridPhase2
    \/ RLStartEpisode
    \/ RLStep
    \/ RLEndEpisode
    \/ RLFinish
    \/ Respond

Spec == Init /\ [][Next]_vars

\* ------------------------------------------- a request that the caller gives up
\* while optimize runs the caller asks for cancellation, or the deadline passes;
\* optimize takes no token and has no clock, so nothing else changes
RequestCancel ==
    /\ pc \notin {"idle", "respond", "done"}
    /\ ~cancel_requested
    /\ cancel_requested' = TRUE
    /\ UNCHANGED <<pc, reqVars, gaVars, rlVars, final_result, error, response,
                   call, ret, libVars>>

NextCancel ==
    \/ Next
    \/ RequestCancel

SpecCancel == Init /\ [][NextCancel]_vars

\* ------------------------------------------- the operators called on their own
OpStopLists == {StopsFrom(1, n) : n \in 0..MaxOpStops}
OpBusLists == {[i \in 1..n |-> Bus(i)] : n \in 0..MaxOpBuses}
OpStopSeqs == UNION {[1..n -> 1..MaxOpIds] : n \in 0..MaxOpLen}
OpRoutes == {Route(b, q) : b \in 1..2, q \in OpStopSeqs}
\* crossover parents: parent1 drives vehicle 1, parent2 vehicle 2
OpParents == {<<Route(1, q[1]), Route(2, q[2])>> : q \in OpStopSeqs \X OpStopSeqs}
\* evaluated routes for a tournament: two fitness values, so that ties happen
TournamentRoutes ==
    {[bus_id |-> 1, stops |-> <<i>>, fitness |-> f * (FitnessScale \div 4)] : i \in 1..2, f \in 1..2}
OpPopulations == UNION {[1..n -> TournamentRoutes] : n \in 0..MaxOpPop}

\* what a pass of the episode loop records for a step from the route to next_stop
\* (lines 135-158), the traffic going from 0.456 to 0.518 or back
Recorded(stop_list, current_route, action, next_stop) ==
    LET traffic(n) == IF n % 2 = 0 THEN 456 ELSE 518
        after == current_route \o (IF Truthy(next_stop) THEN <<next_stop>> ELSE <<>>)
    IN  [state |-> to_vector(RouteState(stop_list, current_route,
                                        traffic(Len(current_route)), "rain")),
         action |-> action,
         reward |-> _calculate_reward(current_route, next_stop, stop_list, [max_time |-> 5]),
         next_state |-> to_vector(RouteState(stop_list, after,
                                             traffic(Len(current_route) + 1), "rain")),
         done |-> Len(current_route) >= Len(stop_list) \/ next_stop = NoStop]

\* the two steps of an episode on the stops 1, 2, and the step that finds no stop
\* left in a request of three stops that repeats the id 1
OpTransitions ==
    {Recorded(StopsFrom(1, 2), <<>>, 0, 1),
     Recorded(StopsFrom(1, 2), <<1>>, 0, 2),
     Recorded(<<Stop(1), Stop(2), Stop(1)>>, <<1, 2>>, 2, NoStop)}
OpMemories == UNION {[1..n -> OpTransitions] : n \in 0..maxlen}
\* agents for a replay: new agents that recorded transitions, and what a first replay
\* made of them
OpAgents ==
    LET recorded == {[DQN EXCEPT !.memory = m] : m \in OpMemories}
    IN  recorded \cup UNION {replay(agent) : agent \in recorded}

Returned(value) == [raised |-> "none", value |-> value]
Raised(exception) == [raised |-> exception, value |-> None]
stateVarsButAgents ==
    <<pc, reqVars, gaVars, rlVars, final_result, error, response, cancel_requested>>
stateVars == <<stateVarsButAgents, libVars>>

\* the calls: an operator's name and its arguments
OpCalls ==
    {[op |-> "_initialize_population", stops |-> s, buses |-> b, size |-> size] :
        s \in OpStopLists, b \in OpBusLists, size \in 0..MaxOpSize}
    \cup {[op |-> "_tournament_selection", population |-> p] : p \in OpPopulations}
    \cup {[op |-> "_crossover", parent1 |-> p[1], parent2 |-> p[2]] : p \in OpParents}
    \cup {[op |-> "_mutate", route |-> r] : r \in OpRoutes}
    \cup {[op |-> "act"]}
    \cup {[op |-> "replay", agent |-> agent] : agent \in OpAgents}
    \cup {[op |-> "_apply_action", action |-> a, route |-> r, stops |-> s] :
            a \in 0..(action_size - 1), r \in OpStopSeqs,
            s \in OpStopLists \cup {StopsFrom(0, 2)}}

Call_initialize_population ==
    /\ call # None /\ ret = None
    /\ call.op = "_initialize_population"
    /\ IF _initialize_population_raises(call.stops, call.buses, call.size)
       THEN ret' = Raised("ValueError")
       ELSE \E p \in _initialize_population(call.stops, call.buses, call.size) :
                ret' = Returned(p)
    /\ UNCHANGED <<stateVars, call>>

Call_tournament_selection ==
    /\ call # None /\ ret = None
    /\ call.op = "_tournament_selection"
    /\ IF _tournament_selection_raises(call.population)
       THEN ret' = Raised("ValueError")
       ELSE \E r \in _tournament_selection(call.population) : ret' = Returned(r)
    /\ UNCHANGED <<stateVars, call>>

Call_crossover ==
    /\ call # None /\ ret = None
    /\ call.op = "_crossover"
    /\ \E pair \in Crossovers(call.parent1, call.parent2) : ret' = Returned(pair)
    /\ UNCHANGED <<stateVars, call>>

Call_mutate ==
    /\ call # None /\ ret = None
    /\ call.op = "_mutate"
    /\ \E m \in Mutations(call.route) : ret' = Returned(m)
    /\ UNCHANGED <<stateVars, call>>

Call_act ==
    /\ call # None /\ ret = None
    /\ call.op = "act"
    /\ \E a \in act : ret' = Returned(a)
    /\ UNCHANGED <<stateVars, call>>

Call_apply_action ==
    /\ call # None /\ ret = None
    /\ call.op = "_apply_action"
    /\ \E next_stop \in _apply_action(call.action, call.route, call.stops) :
            ret' = Returned(next_stop)
    /\ UNCHANGED <<stateVars, call>>

Call_replay ==
    /\ call # None /\ ret = None
    /\ call.op = "replay"
    /\ \E agent \in replay(call.agent) : ret' = Returned(agent)
    /\ UNCHANGED <<stateVars, call>>

InitOps ==
    /\ Idle
    /\ call \in OpCalls
    /\ ret = None

NextOps ==
    \/ Call_initialize_population
    \/ Call_tournament_selection
    \/ Call_crossover
    \/ Call_mutate
    \/ Call_act
    \/ Call_apply_action
    \/ Call_replay

SpecOps == InitOps /\ [][NextOps]_vars

\* ------------------------------------------------- the agent called on its own
\* transitions as an episode records them: the first step of a one-stop request, and
\* the step that finds no stop left in a request that repeats an id
AgentTransitions ==
    {[state |-> <<0, 456, 0, 1>>, action |-> 0, reward |-> 6 * RewardScale,
      next_state |-> <<1, 518, 0, 1, 1>>, done |-> FALSE],
     [state |-> <<2, 518, 50, 3, 1, 2>>, action |-> 2, reward |-> -10 * RewardScale,
      next_state |-> <<2, 456, 50, 3, 1, 2>>, done |-> TRUE]}
AgentVectors == {t.state : t \in AgentTransitions}

Agent_remember ==
    /\ \E t \in AgentTransitions : agents' = [agents EXCEPT ![1] = remember(@, t)]
    /\ UNCHANGED <<stateVarsButAgents, calls, call, ret>>

Agent_act ==
    /\ \E v \in AgentVectors : \E o \in DQN_act(agents[1], v, 0..(action_size - 1)) :
            agents' = [agents EXCEPT ![1] = o.agent]
    /\ UNCHANGED <<stateVarsButAgents, calls, call, ret>>

Agent_replay ==
    /\ \E a \in replay(agents[1]) : agents' = [agents EXCEPT ![1] = a]
    /\ UNCHANGED <<stateVarsButAgents, calls, call, ret>>

NextAgent ==
    \/ Agent_remember
    \/ Agent_act
    \/ Agent_replay

SpecAgent == Init /\ [][NextAgent]_vars

\* ------------------------------ RLOptimizer.optimize on an optimizer that is kept
\* the draws of random.uniform(0.3, 0.7), random.choice([...]) and
\* random.uniform(-0.1, 0.1), the traffic in thousandths
TrafficLevels == {456}
Weathers == {"rain"}
TrafficChanges == {0}
\* the draws of random.randrange(10): the first stop left, and a random one
ActionDraws == {0, 2}

RLStopLists == {StopsFrom(1, n) : n \in 0..MaxRLStops} \cup {StopsFrom(0, 1)}
RLBusLists == {<<Bus(1)>>}
RLConstraintSets == {[max_time |-> 5]}

\* RLOptimizer._initialize_state: the states it can return
_initialize_state(stop_list) ==
    {RouteState(stop_list, <<>>, t, w) : t \in TrafficLevels, w \in Weathers}

\* RLOptimizer._update_state: the states it can return
_update_state(state, next_stop, current_route) ==
    {RouteState(state.stops,
                current_route \o (IF Truthy(next_stop) THEN <<next_stop>> ELSE <<>>),
                Max(0, Min(1000, state.traffic_level + traffic_change)),
                state.weather_condition) : traffic_change \in TrafficChanges}

\* a bug: the agent is a class attribute, one for all optimizers
agent_of_class(k) == 1

\* self.agent of the optimizer a call runs on
agent_of(k) == k.instance

\* a thread calls optimize on one of the optimizers: thread 1 on optimizer 1, another
\* thread on optimizer 1 as well or on its own
RLOptimizer_optimize(c) ==
    /\ calls[c].pc = "idle"
    /\ \E i \in {1, c}, s \in RLStopLists, b \in RLBusLists, k \in RLConstraintSets :
            calls' = [calls EXCEPT ![c] =
                        [NoCall EXCEPT !.pc = "episode", !.instance = i, !.stops = s,
                                       !.buses = b, !.constraints = k]]
    /\ UNCHANGED <<stateVarsButAgents, agents, call, ret>>

\* reinforcement_learning.py 127-131
RLOptimizer_StartEpisode(c) ==
    /\ calls[c].pc = "episode"
    /\ calls[c].episode < episodes
    /\ \E state \in _initialize_state(calls[c].stops) :
            calls' = [calls EXCEPT ![c].state = state, ![c].route = <<>>,
                                   ![c].total_reward = 0, ![c].done = FALSE,
                                   ![c].pc = "step"]
    /\ UNCHANGED <<stateVarsButAgents, agents, call, ret>>

\* reinforcement_learning.py 133-160: one pass of the episode's loop
RLOptimizer_Step(c) ==
    LET k == calls[c]
        state_vector == to_vector(k.state)
    IN  /\ k.pc = "step"
        /\ ~k.done /\ Len(k.route) < Len(k.stops)
        /\ \E o \in DQN_act(agents[agent_of(k)], state_vector, ActionDraws) :
           \E next_stop \in _apply_action(o.action, k.route, k.stops) :
           IF _calculate_reward_raises(next_stop, k.constraints)
           THEN /\ agents' = [agents EXCEPT ![agent_of(k)] = o.agent]
                /\ calls' = [calls EXCEPT ![c].pc = "raised", ![c].error = "AttributeError"]
           ELSE \E next_state \in _update_state(k.state, next_stop, k.route) :
                LET reward == _calculate_reward(k.route, next_stop, k.stops, k.constraints)
                    is_done == Len(k.route) >= Len(k.stops) \/ next_stop = NoStop
                IN  /\ agents' = [agents EXCEPT ![agent_of(k)] =
                                    remember(o.agent,
                                             [state |-> state_vector, action |-> o.action,
                                              reward |-> reward,
                                              next_state |-> to_vector(next_state),
                                              done |-> is_done])]
                    /\ calls' = [calls EXCEPT
                                    ![c].route = IF Truthy(next_stop)
                                                 THEN Append(k.route, next_stop) ELSE k.route,
                                    ![c].total_reward = IF Truthy(next_stop)
                                                        THEN k.total_reward + reward
                                                        ELSE k.total_reward,
                                    ![c].done = is_done,
                                    ![c].state = next_state]
        /\ UNCHANGED <<stateVarsButAgents, call, ret>>

\* reinforcement_learning.py 162-168: train, keep the best
RLOptimizer_EndEpisode(c) ==
    LET k == calls[c]
    IN  /\ k.pc = "step"
        /\ k.done \/ Len(k.route) >= Len(k.stops)
        /\ \E a \in replay(agents[agent_of(k)]) :
                agents' = [agents EXCEPT ![agent_of(k)] = a]
        /\ calls' = [calls EXCEPT
                        ![c].best_reward = IF k.total_reward > k.best_reward
                                           THEN k.total_reward ELSE k.best_reward,
                        ![c].best_route = IF k.total_reward > k.best_reward
                                          THEN k.route ELSE k.best_route,
                        ![c].episode = k.episode + 1,
                        ![c].pc = "episode"]
        /\ UNCHANGED <<stateVarsButAgents, call, ret>>

\* reinforcement_learning.py 170-171: the result; the return ends the life of the locals
RLOptimizer_Finish(c) ==
    LET k == calls[c]
    IN  /\ k.pc = "episode"
        /\ k.episode >= episodes
        /\ calls' = [calls EXCEPT ![c] =
                        IF _format_results_raises(k.best_route, k.stops, k.buses)
                        THEN [NoCall EXCEPT !.pc = "raised", !.instance = k.instance,
                                            !.error = "StopIteration"]
                        ELSE [NoCall EXCEPT !.pc = "returned", !.instance = k.instance,
                                            !.result = _format_results(k.best_route, k.stops,
                                                                       k.buses, k.best_reward)]]
        /\ UNCHANGED <<stateVarsButAgents, agents, call, ret>>

NextRL ==
    \E c \in Threads :
        \/ RLOptimizer_optimize(c)
        \/ RLOptimizer_StartEpisode(c)
        \/ RLOptimizer_Step(c)
        \/ RLOptimizer_EndEpisode(c)
        \/ RLOptimizer_Finish(c)

SpecRL == Init /\ [][NextRL]_vars

\* =================================================================== claims
\* every candidate route of the GA run: population, offspring, tracked best
GARoutes ==
    Range(population) \cup Range(new_population)
        \cup (IF best_solution = None THEN {} ELSE {best_solution})
StopIdSet == {stops[i].id : i \in DOMAIN stops}
BusIdSet == {buses[i].id : i \in DOMAIN buses}
IsGAResult(r) == r # None /\ "final_fitness" \in DOMAIN r

\* C1: when the stop ids of the request are unique, no candidate route that exists
\* during a GA run (initial, crossed over, mutated, carried over, tracked) holds
\* a stop id more than once.
C1_NoDuplicateStops ==
    UniqueIds(stops) => \A r \in GARoutes : NoRepeats(r.stops)

\* C1 witness: in generation 1 an offspring that is no member's stop sequence
C1_Witness ==
    /\ UniqueIds(stops) /\ pc = "ga_reproduce" /\ generation = 1
    /\ Len(new_population) > 2
    /\ \A i \in DOMAIN population : population[i].stops # new_population[3].stops

\* C2: every stop id in a candidate route (GA population, offspring, tracked best,
\* the RL episode route and best route) is the id of a stop of the request, every GA
\* route's bus_id is the id of a supplied vehicle, and no id lookup fails.
C2_IdsExist ==
    /\ \A r \in GARoutes : Range(r.stops) \subseteq StopIdSet /\ r.bus_id \in BusIdSet
    /\ Range(route) \subseteq StopIdSet
    /\ Range(best_route) \subseteq StopIdSet
    /\ error # "StopIteration"

\* C2 witness: a GA run of two generations answered, after the lookups of fitness,
\* metrics and formatting
C2_Witness ==
    /\ pc = "done" /\ optimizer = "genetic" /\ generations = 2
    /\ response.status = 200
    /\ Len(response.routes[1].stops) = 3

\* C3: with at least one vehicle the population has exactly population_size members
\* at the start of every generation and after every replacement.
C3_PopulationSizeConstant ==
    (buses # <<>> /\ pc \in {"ga_generation", "ga_reproduce"})
        => Len(population) = population_size

\* C3 witness: an odd population_size, after a replacement that cut an offspring pair
C3_Witness ==
    /\ buses # <<>> /\ pc = "ga_generation" /\ generation = 1
    /\ population_size = 3 /\ Len(new_population) = 4

MaxFitness(pop) ==
    CHOOSE f \in {pop[i].fitness : i \in DOMAIN pop} : \A i \in DOMAIN pop : pop[i].fitness <= f

\* C4 (as amended): the tracked best fitness changes only in the evaluation step of a
\* generation, where it becomes the larger of its value and the best fitness of the
\* evaluated population, so it is the maximum over everything evaluated so far and
\* never decreases; the incumbent is replaced only by a strictly greater fitness; the
\* returned route is the tracked best, final_fitness is the tracked best fitness, and
\* fitness_score is final_fitness rounded to 4 decimal places.
C4_BestFitnessTracked ==
    [][/\ best_fitness' >= best_fitness
       /\ (pc = "ga_generation" /\ pc' = "ga_reproduce")
            => best_fitness' = Max(best_fitness, MaxFitness(population'))
       /\ best_fitness' # best_fitness => (pc = "ga_generation" /\ pc' = "ga_reproduce")
       /\ best_solution' # best_solution
            => /\ best_fitness' > best_fitness
               /\ best_solution'.fitness = best_fitness'
               /\ best_solution' = population'[1]
       /\ ga_result' # ga_result
            => /\ ga_result'.final_fitness = best_fitness
               /\ best_solution.fitness = best_fitness
               /\ ga_result'.routes[1].bus_id = best_solution.bus_id
               /\ [i \in DOMAIN ga_result'.routes[1].stops |-> ga_result'.routes[1].stops[i].id]
                    = best_solution.stops
               /\ ga_result'.routes[1].fitness_score = Round4(ga_result'.final_fitness)
      ]_vars

\* C4 witness: a run of two generations returned its result, and the rounding changed
\* the score
C4_Witness ==
    /\ pc = "done" /\ optimizer = "genetic" /\ generations = 2 /\ population_size = 3
    /\ IsGAResult(ga_result)
    /\ ga_result.routes[1].fitness_score # ga_result.final_fitness

\* C4 as stated: the returned route's fitness_score equals final_fitness.
C4_ScoreEqualsFinalFitness ==
    IsGAResult(ga_result) => ga_result.routes[1].fitness_score = ga_result.final_fitness

PopulationBest(pop) ==
    LET f == [i \in DOMAIN pop |-> _calculate_fitness(pop[i], stops, buses)]
    IN  CHOOSE m \in Range(f) : \A i \in DOMAIN pop : f[i] <= m

\* C5: when a generation's population is replaced, its two highest-fitness candidates
\* (the one candidate, when the population has one member) are in the next population
\* with the same vehicle id and the same stop sequence, and the best fitness present
\* in the population does not decrease.
C5_ElitesSurvive ==
    [][(pc = "ga_reproduce" /\ pc' = "ga_generation")
        => /\ \A i \in 1..Min(2, Len(population)) :
                /\ i <= Len(population')
                /\ population'[i].bus_id = population[i].bus_id
                /\ population'[i].stops = population[i].stops
           /\ PopulationBest(population') >= PopulationBest(population)
      ]_vars

\* C5 witness: the second replacement of a population of 3, whose third member is
\* an offspring
C5_Witness ==
    /\ pc = "ga_generation" /\ generation = 2 /\ population_size = 3
    /\ Len(population) = 3
    /\ population[1].fitness > 0 /\ population[2].fitness > 0 /\ population[3].fitness = 0

\* C6 as stated: with an empty vehicle list the call fails with ConfigurationError
\* before a population is initialized or a generation or episode runs.
C6_EmptyVehiclesRejected ==
    (optimizer # "none" /\ buses = <<>>)
        => /\ pc \notin {"ga_generation", "ga_reproduce", "rl_step"}
           /\ pc \in {"respond", "done"} => error = "ConfigurationError"

\* C7 as stated: a GA call with no stops and at least one vehicle returns a result
\* with stops_count = 0 and total_distance_km = 0.
C7_EmptyStopsTrivialResult ==
    (optimizer = "genetic" /\ stops = <<>> /\ buses # <<>> /\ pc = "done")
        => /\ error = "none"
           /\ IsGAResult(ga_result)
           /\ ga_result.metrics.stops_count = 0
           /\ ga_result.metrics.total_distance_km = 0

\* C8 as stated: _initialize_population never raises; with n >= 1 stops and a vehicle
\* it returns population_size routes of k distinct stops, min(3, n) <= k <= n; with
\* no stops or no vehicles it returns the empty population.
C8_InitializeNeverFails ==
    (call # None /\ ret # None /\ call.op = "_initialize_population")
        => /\ ret.raised = "none"
           /\ (Len(call.stops) >= 1 /\ Len(call.buses) >= 1)
                => /\ Len(ret.value) = call.size
                   /\ \A i \in DOMAIN ret.value :
                        /\ NoRepeats(ret.value[i].stops)
                        /\ Min(3, Len(call.stops)) <= Len(ret.value[i].stops)
                        /\ Len(ret.value[i].stops) <= Len(call.stops)
           /\ (Len(call.stops) = 0 \/ Len(call.buses) = 0) => ret.value = <<>>

\* C9 as stated: an algorithm name outside genetic, rl, hybrid is rejected with
\* ConfigurationError and no optimizer is built or run for it.
C9_UnknownAlgorithmRejected ==
    (pc # "idle" /\ algorithm \notin {"genetic", "rl", "hybrid"})
        => /\ optimizer = "none"
           /\ pc \in {"respond", "done"}
           /\ error = "ConfigurationError"

\* C10 as stated: selection from a non-empty population, crossover, mutation and the
\* action choice never raise; crossover with a parent of fewer than 2 stops returns
\* the parents and mutation of a route of fewer than 2 stops returns the route.
C10_OperatorsNeverRaise ==
    (call # None /\ ret # None)
        => /\ (call.op = "_tournament_selection" /\ call.population # <<>>)
                => ret.raised = "none" /\ ret.value \in Range(call.population)
           /\ call.op = "_crossover"
                => /\ ret.raised = "none"
                   /\ (Len(call.parent1.stops) < 2 \/ Len(call.parent2.stops) < 2)
                        => ret.value = <<call.parent1, call.parent2>>
           /\ call.op = "_mutate"
                => /\ ret.raised = "none"
                   /\ Len(call.route.stops) < 2 => ret.value = call.route
           /\ call.op = "act" => ret.raised = "none" /\ ret.value \in 0..(action_size - 1)

\* C11 as stated: a GA call whose vehicle has capacity 0 runs through all its
\* generations and returns a result; no division error ends it.
C11_ZeroCapacityProceeds ==
    (/\ optimizer = "genetic" /\ pc = "done"
     /\ \E i \in DOMAIN buses : buses[i].capacity = 0
     /\ Len(stops) >= 3 /\ population_size > 0 /\ generations > 0)
        => /\ error = "none"
           /\ IsGAResult(ga_result)

total_distance_km(result) == Get(result.metrics, "total_distance_km", PosInf)

\* C12 as stated: an orchestrator call that ran both optimizers returns the RL result
\* tagged 'rl' exactly when its total_distance_km is strictly lower than the GA
\* result's (absent or failed counting as +infinity), and in every other case, a tie,
\* an RL result without the metric and a failed RL run included, the GA result tagged
\* 'genetic'.
C12_LowerDistanceWins ==
    (/\ algorithm = "hybrid" /\ pc = "done"
     /\ Len(stops) > rl_threshold /\ ga_result # None)
        => /\ error = "none"
           /\ final_result # None
           /\ IF rl_result # None /\ total_distance_km(rl_result) < total_distance_km(ga_result)
              THEN /\ final_result.algorithm_used = "rl"
                   /\ final_result.routes = rl_result.routes
                   /\ final_result.metrics = rl_result.metrics
              ELSE /\ final_result.algorithm_used = "genetic"
                   /\ final_result.routes = ga_result.routes
                   /\ final_result.metrics = ga_result.metrics

\* C19 as stated: in every reachable state of an agent, after any number of replays,
\* 0.01 <= epsilon <= 1.0.
C19_EpsilonWithinBounds ==
    \A i \in Instances :
        epsilon_min <= agents[i].epsilon /\ agents[i].epsilon <= EpsilonScale

\* C20: the replay buffer never holds more than maxlen transitions; a step that changes
\* it appends one transition at its end, after dropping exactly the oldest one when it
\* was full, so that it holds the most recent transitions in the order they were
\* stored; a step that writes the table or decays epsilon (act, replay) leaves it as
\* it is.
C20_BoundedFIFO ==
    [][\A i \in Instances :
        LET before == agents[i].memory
            after == agents'[i].memory
        IN  /\ Len(after) <= maxlen
            /\ after # before
                => /\ after # <<>>
                   /\ after = IF Len(before) < maxlen
                              THEN Append(before, after[Len(after)])
                              ELSE Append(Tail(before), after[Len(after)])
            /\ (agents'[i].q_table # agents[i].q_table
                    \/ agents'[i].epsilon # agents[i].epsilon)
                => after = before
      ]_vars

\* C20 witness: a full buffer of terminal transitions only, and a table entry that a
\* replay wrote from the non-terminal transition: that one was stored, sampled and
\* later pushed out
C20_Witness ==
    /\ Len(agents[1].memory) = maxlen
    /\ \A j \in DOMAIN agents[1].memory : agents[1].memory[j].done
    /\ \E key \in DOMAIN agents[1].q_table : agents[1].q_table[key][0] = 6 * RewardScale

\* the RL optimizer is running: the only steps in which its agent acts, records or
\* replays
InRL == pc \in {"rl_episode", "rl_step"}

C15_CallChangesNoOuterState ==
    [][(pc # "idle" /\ optimizer \in {"genetic", "hybrid"})
        => /\ population_size' = population_size
           /\ generations' = generations
           /\ stops' = stops
           /\ buses' = buses
           /\ constraints' = constraints
      ]_vars

\* C15 witness: a GA call that went through its generations has returned and been
\* answered
C15_Witness ==
    /\ optimizer = "genetic" /\ pc = "done" /\ error = "none"
    /\ generations = MaxGen /\ population_size = MaxPop
    /\ Len(stops) = MaxStops
    /\ IsGAResult(ga_result)

\* C16: over successive optimize calls on one RL optimizer the agent's learning state
\* persists: no step removes a key of the action-value table, empties or shortens the
\* replay buffer, or raises epsilon, and the agent changes only in a loop pass or an
\* episode end of a call running on its optimizer, so a call starts with the table,
\* buffer and epsilon the call before it left.
C16_LearningStatePersists ==
    [][\A i \in Instances :
        /\ DOMAIN agents[i].q_table \subseteq DOMAIN agents'[i].q_table
        /\ Len(agents'[i].memory) >= Len(agents[i].memory)
        /\ agents'[i].epsilon <= agents[i].epsilon
        /\ agents'[i] # agents[i]
            => \E c \in Threads :
                /\ calls[c].instance = i /\ calls[c].pc = "step"
                /\ calls'[c].pc \in {"step", "episode", "raised"}
      ]_vars

\* C16 witness: thread 1's call on optimizer 1 has returned and thread 2's call on it
\* has started and not yet acted: the agent has the two transitions, the table rows
\* and the decayed epsilon of the first call
C16_Witness ==
    /\ calls[1].pc = "returned"
    /\ calls[2].pc = "episode" /\ calls[2].episode = 0 /\ calls[2].instance = 1
    /\ Len(agents[1].memory) = 2
    /\ agents[1].q_table # <<>>
    /\ agents[1].epsilon < EpsilonScale

\* C17: the code has no lock: loop passes and replays of two calls on one optimizer
\* interleave, and a replay of one call samples what the other recorded; a step of a
\* call changes the agent of the optimizer the call runs on and no other, so calls on
\* optimizers of their own do not touch each other's table, buffer or epsilon.
C17_OnlyOwnAgentTouched ==
    [][\A c \in Threads :
        calls'[c] # calls[c]
            => \A i \in Instances : i # calls'[c].instance => agents'[i] = agents[i]
      ]_vars

\* C17 witness: both threads are inside a call on optimizer 1; thread 1 has ended its
\* first episode, in which it recorded one transition, and its replay was performed
\* (epsilon decayed) on a minibatch of two: the other is the transition thread 2
\* recorded, whose first episode has not ended
C17_Witness ==
    /\ calls[1].instance = 1 /\ calls[2].instance = 1
    /\ calls[1].pc = "episode" /\ calls[1].episode = 1 /\ Len(calls[1].stops) = 1
    /\ calls[2].pc = "step" /\ calls[2].episode = 0 /\ Len(calls[2].route) = 1
    /\ agents[1].epsilon < EpsilonScale
    /\ agents[1].q_table # <<>>

\* C18 as stated: for stops with unique integer ids, 0 included, every pass of the
\* episode loop (every transition recorded) appends one not-yet-visited stop to the
\* route of the call that made it.
C18_EveryPassAppends ==
    [][\A i \in Instances :
        agents'[i].memory # agents[i].memory
            => \E c \in Threads :
                /\ calls[c].instance = i /\ calls[c].pc = "step"
                /\ UniqueIds(calls[c].stops)
                /\ Len(calls'[c].route) = Len(calls[c].route) + 1
                /\ calls'[c].route[Len(calls'[c].route)] \notin Range(calls[c].route)
      ]_vars

\* ---------------------------------------------------------------- C22 .. C24, C29
\* the child the claim describes: the segment of the first parent, then the stops of
\* the other parent that are not in the segment, in its order, cut at the first
\* parent's length
SegmentThenRest(first, other, start, end) ==
    LET segment == [k \in 1..(end - start) |-> first[start + k]]
        NotInSegment(x) == x \notin Range(segment)
        whole == segment \o SelectSeq(other, NotInSegment)
    IN  [k \in 1..Min(Len(whole), Len(first)) |-> whole[k]]

\* a crossover call whose parents both have at least 2 duplicate-free stops
CrossoverOfProperParents ==
    /\ call # None /\ call.op = "_crossover"
    /\ Len(call.parent1.stops) >= 2 /\ Len(call.parent2.stops) >= 2
    /\ NoRepeats(call.parent1.stops) /\ NoRepeats(call.parent2.stops)

\* C22: for parents with at least 2 duplicate-free stops each and every cut pair the
\* code can draw, crossover returns child1 = the segment of parent1 followed by the
\* stops of parent2 not in it, cut at parent1's length, and child2 the same with the
\* parents exchanged; the children keep their parent's vehicle id; what a call
\* returned is one of these pairs.
C22_CrossoverChildren ==
    CrossoverOfProperParents =>
        LET p1 == call.parent1
            p2 == call.parent2
            Described(c) ==
                <<Route(p1.bus_id, SegmentThenRest(p1.stops, p2.stops, c[1], c[2])),
                  Route(p2.bus_id, SegmentThenRest(p2.stops, p1.stops, c[1], c[2]))>>
        IN  /\ \A c \in CutPoints(p1, p2) : _crossover(p1, p2, c[1], c[2]) = Described(c)
            /\ ret # None
                => /\ ret.raised = "none"
                   /\ \E c \in CutPoints(p1, p2) : ret.value = Described(c)

\* C22 witness: a crossover of two three-stop parents returned a first child that is
\* neither parent's sequence
C22_Witness ==
    /\ CrossoverOfProperParents /\ ret # None
    /\ Len(call.parent1.stops) = 3 /\ Len(call.parent2.stops) = 3
    /\ ret.value[1].stops \notin {call.parent1.stops, call.parent2.stops}
    /\ ret.value[1].bus_id = 1 /\ ret.value[2].bus_id = 2

\* C23 as stated: with size = min(len(p1), len(p2)), the cut pairs crossover can draw
\* are exactly the pairs 0 <= start < end <= size.
C23_CutPairsUpToSize ==
    (/\ call # None /\ call.op = "_crossover" /\ ret # None
     /\ Len(call.parent1.stops) >= 2 /\ Len(call.parent2.stops) >= 2)
        => LET size == Min(Len(call.parent1.stops), Len(call.parent2.stops))
           IN  CutPoints(call.parent1, call.parent2)
                    = {c \in (0..size) \X (0..size) : c[1] < c[2]}

\* C24: mutation of a route with at least 2 stops returns a route of the same vehicle
\* whose sequence is the input's with the stops at two distinct positions exchanged;
\* a shorter route is returned as it is; crossover of a parent with fewer than 2 stops
\* returns both parents as they are.
C24_MutationSwapsTwo ==
    (call # None /\ ret # None)
        => /\ call.op = "_mutate"
                => LET before == call.route.stops
                       after == ret.value.stops
                   IN  /\ ret.raised = "none"
                       /\ ret.value.bus_id = call.route.bus_id
                       /\ IF Len(before) < 2 THEN ret.value = call.route
                          ELSE \E i, j \in DOMAIN before :
                                /\ i # j
                                /\ DOMAIN after = DOMAIN before
                                /\ after[i] = before[j] /\ after[j] = before[i]
                                /\ \A k \in DOMAIN before \ {i, j} : after[k] = before[k]
           /\ (/\ call.op = "_crossover"
               /\ (Len(call.parent1.stops) < 2 \/ Len(call.parent2.stops) < 2))
                => ret.value = <<call.parent1, call.parent2>>

\* C24 witness: the mutation of a route of three different stops returned another
\* sequence
C24_Witness ==
    /\ call # None /\ ret # None /\ call.op = "_mutate"
    /\ Len(call.route.stops) = 3 /\ NoRepeats(call.route.stops)
    /\ ret.value.stops # call.route.stops

Unvisited(stop_list, current_route) ==
    {i \in DOMAIN stop_list : stop_list[i].id \notin Range(current_route)}

\* C25: for every action 0..9 and every route, _apply_action returns 'no stop'
\* exactly when every stop id is in the route; otherwise it returns the id of a stop
\* not in the route: the first such stop of the list for action 0, the last for
\* action 1, any for the actions 2..9.
C25_ActionResolution ==
    (call # None /\ ret # None /\ call.op = "_apply_action")
        => LET unvisited == Unvisited(call.stops, call.route)
               first == CHOOSE i \in unvisited : \A k \in unvisited : i <= k
               last == CHOOSE i \in unvisited : \A k \in unvisited : k <= i
           IN  /\ ret.raised = "none"
               /\ IF unvisited = {} THEN ret.value = NoStop
                  ELSE /\ ret.value # NoStop
                       /\ ret.value \notin Range(call.route)
                       /\ \E i \in unvisited : ret.value = call.stops[i].id
                       /\ call.action = 0 => ret.value = call.stops[first].id
                       /\ call.action = 1 => ret.value = call.stops[last].id

\* C25 witness: with one of three stops visited, action 1 returned the last of the two
\* stops left
C25_Witness ==
    /\ call # None /\ ret # None /\ call.op = "_apply_action"
    /\ call.action = 1 /\ Len(call.stops) = 3 /\ call.route = <<2>>
    /\ ret.value = 3

\* ---------------------------------------------------------------------- C26
\* how often x occurs in the sequence s
Occurrences(s, x) == Cardinality({i \in DOMAIN s : s[i] = x})

\* what every replay of the agent leaves: nothing changed below batch_size
\* transitions; from batch_size on the buffer as it was, every minibatch batch_size
\* buffer entries at different positions, and epsilon as after(epsilon) tells
ReplayFrame(agent, after(_)) ==
    IF Len(agent.memory) < batch_size
    THEN replay(agent) = {agent}
    ELSE /\ \A a \in replay(agent) :
                /\ a.memory = agent.memory
                /\ a.epsilon = after(agent.epsilon)
         /\ \A minibatch \in Samples(agent.memory, batch_size) :
                /\ Len(minibatch) = batch_size
                /\ \A x \in Range(minibatch) :
                        Occurrences(minibatch, x) <= Occurrences(agent.memory, x)

\* C26 as stated: a replay below batch_size transitions changes nothing; a replay
\* with batch_size or more processes batch_size distinct buffer entries and decays
\* epsilon (multiplies it by 0.995) exactly once.
C26_ReplayDecaysOnce ==
    LET MultipliedOnce(e) == e - e \div epsilon_decay
    IN  ReplayFrame(agents[1], MultipliedOnce)

\* C26 (as amended): a replay below batch_size transitions changes nothing; a replay
\* with batch_size or more processes batch_size distinct buffer entries, leaves the
\* buffer as it was and multiplies epsilon by 0.995 once when epsilon is above
\* epsilon_min, and leaves epsilon as it is otherwise.
C26_ReplayDecaysOnceAboveFloor ==
    LET MultipliedOnceAboveFloor(e) ==
            IF e > epsilon_min THEN e - e \div epsilon_decay ELSE e
    IN  ReplayFrame(agents[1], MultipliedOnceAboveFloor)

\* C26 witness: replays were performed, epsilon has come down to the floor, and the
\* buffer holds enough transitions for another replay
C26_Witness ==
    /\ Len(agents[1].memory) >= batch_size
    /\ agents[1].epsilon <= epsilon_min
    /\ agents[1].q_table # <<>>

\* ---------------------------------------------------------------------- C27
\* the table after one transition is processed, as the claim describes it: the rows
\* of the state and the next state exist, an absent row counting as all zeros, the
\* entry of (state, action) is the target, and every other entry is as before
TableAfter(table, t) ==
    LET key == state_key(t.state)
        next_key == state_key(t.next_state)
        RowOf(k) == IF k \in DOMAIN table THEN table[k] ELSE [a \in 0..(action_size - 1) |-> 0]
        best == CHOOSE v \in {RowOf(next_key)[a] : a \in 0..(action_size - 1)} :
                    \A a \in 0..(action_size - 1) : RowOf(next_key)[a] <= v
        target == IF t.done THEN t.reward ELSE t.reward + (95 * best) \div 100
    IN  [k \in DOMAIN table \cup {key, next_key} |->
            [a \in 0..(action_size - 1) |->
                IF k = key /\ a = t.action THEN target ELSE RowOf(k)[a]]]

\* the table after the transitions of a minibatch are processed in turn
RECURSIVE TableAfterAll(_, _)
TableAfterAll(table, minibatch) ==
    IF minibatch = <<>> THEN table
    ELSE TableAfterAll(TableAfter(table, Head(minibatch)), Tail(minibatch))

\* C27: a replay processes its transitions in turn; each overwrites the entry of
\* (rounded state, action) with the reward when the transition is terminal and with
\* reward + 0.95 * max of the row of the rounded next state otherwise, an absent row
\* counting as zeros; apart from the all-zero rows created for unseen keys no other
\* entry changes.
C27_ReplayWritesTargets ==
    (call # None /\ call.op = "replay" /\ Len(call.agent.memory) >= batch_size)
        => LET agent == call.agent
           IN  /\ \A minibatch \in Samples(agent.memory, batch_size) :
                    ReplayLoop(agent.q_table, minibatch, 1)
                        = TableAfterAll(agent.q_table, minibatch)
               /\ ret # None
                    => /\ ret.raised = "none"
                       /\ \E minibatch \in Samples(agent.memory, batch_size) :
                            ret.value.q_table = TableAfterAll(agent.q_table, minibatch)

\* C27 witness: a second replay returned a table in which the entry of the first
\* step is its reward plus 0.95 times the entry the first replay wrote for the second
\* step, and the entry of the terminal step is its reward
C27_Witness ==
    /\ call # None /\ ret # None /\ call.op = "replay"
    /\ call.agent.q_table # <<>>
    /\ \E t, u, v \in Range(call.agent.memory) :
        /\ ~t.done /\ ~u.done /\ v.done
        /\ t.next_state = u.state
        /\ state_key(u.state) \in DOMAIN call.agent.q_table
        /\ call.agent.q_table[state_key(u.state)][u.action] = u.reward
        /\ u.reward > 0
        /\ ret.value.q_table[state_key(t.state)][t.action]
                = t.reward + (95 * u.reward) \div 100
        /\ state_key(v.state) \in DOMAIN ret.value.q_table
        /\ ret.value.q_table[state_key(v.state)][v.action] = v.reward

\* ---------------------------------------------------------------------- C28
\* C28 as stated: the transition a loop pass stores is stored with terminal = true
\* exactly when the pass ends the episode: when the route covers all stops after it,
\* or no stop was available in it.
C28_LastStepTerminal ==
    [][\A c \in Threads :
        (calls[c].pc = "step" /\ calls'[c].pc = "step" /\ calls'[c] # calls[c])
            => LET memory == agents'[calls[c].instance].memory
                   stored == memory[Len(memory)]
                   all_covered == Len(calls'[c].route) >= Len(calls'[c].stops)
                   none_available == calls'[c].route = calls[c].route
               IN  stored.done = (all_covered \/ none_available)
      ]_vars

\* ---------------------------------------------------------------------- C30
\* the student counts of the stops of a route, stop by stop
RECURSIVE StudentsAlong(_, _, _)
StudentsAlong(route_stops, stop_list, i) ==
    IF i > Len(route_stops) THEN 0
    ELSE stop_list[FirstWithId(stop_list, route_stops[i])].students
            + StudentsAlong(route_stops, stop_list, i + 1)

\* C30 as stated: in every GA result for stops with unique ids and a vehicle of
\* capacity > 0, students_served is the sum of the student counts of the stops of
\* the returned route, stops_count is the route's length, and capacity_utilization
\* is a percentage in [0, 100] (in hundredths here).
C30_MetricsInRange ==
    (/\ IsGAResult(ga_result) /\ UniqueIds(stops)
     /\ \A i \in DOMAIN buses : buses[i].capacity > 0)
        => LET returned == [i \in DOMAIN ga_result.routes[1].stops |->
                                ga_result.routes[1].stops[i].id]
           IN  /\ ga_result.metrics.students_served = StudentsAlong(returned, stops, 1)
               /\ ga_result.metrics.stops_count = Len(returned)
               /\ 0 <= ga_result.metrics.capacity_utilization
               /\ ga_result.metrics.capacity_utilization <= 100 * 100

\* ---------------------------------------------------------------------- C21
\* C21 as stated: once cancellation is requested, the running call stops at the next
\* generation boundary (GA) or episode boundary (RL): it starts no further
\* generation and no further episode.
C21_StopsAtNextBoundary ==
    [][cancel_requested =>
        /\ ~(pc = "ga_generation" /\ pc' = "ga_reproduce")
        /\ ~(pc = "rl_episode" /\ pc' = "rl_step")
      ]_vars

====
